---- MODULE Spec2Model ----
(***************************************************************************)
(* PBRSubSurfaceConfiguration (src/Materials/PBR/pbrSubSurfaceConfiguration *)
(* .ts): the sub surface parameter block of the PBR material.              *)
(*                                                                         *)
(* State: the block's fields (cfg), the material's define struct the block *)
(* fills (defines), the last operation called on the block with its        *)
(* arguments (call), and what that operation returned, wrote, disposed and *)
(* invoked (out).                                                          *)
(***************************************************************************)
EXTENDS Integers, FiniteSets, Sequences, TLC

VARIABLES cfg, defines, call, out

vars == <<cfg, defines, call, out>>

\* Nullable<T>: the null reference.
NULL == "null"

(***************************************************************************)
(* Bounds of the explored input space.                                     *)
(***************************************************************************)
\* Numeric parameters range over 0..MaxNumber.
MaxNumber == 1
\* SpecParams moves at most this many fields off their construction value.
MaxOffDefault == 2

Numbers == 0..MaxNumber

(***************************************************************************)
(* The textures the callers hand to the block and to the scene, with the   *)
(* BaseTexture properties the block reads.                                 *)
(***************************************************************************)
ThicknessMap == "thicknessMap"
ThicknessMapUV2 == "thicknessMapUV2"
RefractionMap == "refractionMap"
EnvironmentMap == "environmentMap"

ThicknessTextures == {ThicknessMap, ThicknessMapUV2}
RefractionTextures == {RefractionMap}
Textures == ThicknessTextures \cup RefractionTextures \cup {EnvironmentMap}

BaseTexture ==
    [thicknessMap |->
        [coordinatesIndex |-> 0, level |-> 1, identityMatrix |-> TRUE,
         isCube |-> FALSE, gammaSpace |-> FALSE, isRGBD |-> FALSE, invertZ |-> FALSE,
         lodLevelInAlpha |-> FALSE, isRenderTarget |-> FALSE, depth |-> 0, width |-> 256,
         lodGenerationScale |-> 0, lodGenerationOffset |-> 0,
         lodTextureMid |-> NULL, lodTextureLow |-> NULL, lodTextureHigh |-> NULL],
     thicknessMapUV2 |->
        [coordinatesIndex |-> 1, level |-> 2, identityMatrix |-> FALSE,
         isCube |-> FALSE, gammaSpace |-> FALSE, isRGBD |-> FALSE, invertZ |-> FALSE,
         lodLevelInAlpha |-> FALSE, isRenderTarget |-> FALSE, depth |-> 0, width |-> 128,
         lodGenerationScale |-> 0, lodGenerationOffset |-> 0,
         lodTextureMid |-> NULL, lodTextureLow |-> NULL, lodTextureHigh |-> NULL],
     refractionMap |->
        [coordinatesIndex |-> 0, level |-> 1, identityMatrix |-> TRUE,
         isCube |-> FALSE, gammaSpace |-> TRUE, isRGBD |-> FALSE, invertZ |-> FALSE,
         lodLevelInAlpha |-> TRUE, isRenderTarget |-> TRUE, depth |-> 4, width |-> 512,
         lodGenerationScale |-> 1, lodGenerationOffset |-> 0,
         lodTextureMid |-> NULL, lodTextureLow |-> NULL, lodTextureHigh |-> NULL],
     environmentMap |->
        [coordinatesIndex |-> 0, level |-> 3, identityMatrix |-> TRUE,
         isCube |-> TRUE, gammaSpace |-> FALSE, isRGBD |-> TRUE, invertZ |-> TRUE,
         lodLevelInAlpha |-> FALSE, isRenderTarget |-> FALSE, depth |-> 0, width |-> 1024,
         lodGenerationScale |-> 2, lodGenerationOffset |-> 1,
         lodTextureMid |-> "environmentMapMid", lodTextureLow |-> "environmentMapLow",
         lodTextureHigh |-> "environmentMapHigh"]]

\* Color3 values: Color3.White() and tints of it.
White == [r |-> 1, g |-> 1, b |-> 1]
Colors == {[r |-> n, g |-> 1, b |-> 1] : n \in Numbers}

\* The scene argument and the global MaterialFlags toggles read during a call.
Scenes == [texturesEnabled : BOOLEAN, environmentTexture : {NULL, EnvironmentMap}]
MaterialFlagsValues == [ThicknessTextureEnabled : BOOLEAN, RefractionTextureEnabled : BOOLEAN]

(***************************************************************************)
(* The block.                                                              *)
(***************************************************************************)
\* The fields as the field initialisers leave them.
PBRSubSurfaceConfiguration ==
    [_isRefractionEnabled |-> FALSE,
     _isTranslucencyEnabled |-> FALSE,
     _isScatteringEnabled |-> FALSE,
     refractionIntensity |-> 1,
     translucencyIntensity |-> 1,
     scatteringIntensity |-> 1,
     _thicknessTexture |-> NULL,
     _refractionTexture |-> NULL,
     _indexOfRefraction |-> 1,
     _invertRefractionY |-> FALSE,
     _linkRefractionWithTransparency |-> FALSE,
     minimumThickness |-> 0,
     maximumThickness |-> 1,
     tintColor |-> White,
     tintColorAtDistance |-> 1,
     diffusionDistance |-> White,
     _useMaskFromThicknessTexture |-> FALSE]

\* The public properties declared with @expandToProperty, each with the
\* private field it reads and writes.
ExpandedProperties ==
    [isRefractionEnabled |-> "_isRefractionEnabled",
     isTranslucencyEnabled |-> "_isTranslucencyEnabled",
     thicknessTexture |-> "_thicknessTexture",
     refractionTexture |-> "_refractionTexture",
     indexOfRefraction |-> "_indexOfRefraction",
     invertRefractionY |-> "_invertRefractionY",
     linkRefractionWithTransparency |-> "_linkRefractionWithTransparency",
     useMaskFromThicknessTexture |-> "_useMaskFromThicknessTexture"]

\* The public fields declared without an accessor.
PlainFields ==
    {"refractionIntensity", "translucencyIntensity", "scatteringIntensity",
     "minimumThickness", "maximumThickness", "tintColor", "tintColorAtDistance",
     "diffusionDistance"}

\* The values a caller assigns to a field.
FieldValues(field) ==
    CASE field \in {"_isRefractionEnabled", "_isTranslucencyEnabled", "_isScatteringEnabled",
                    "_invertRefractionY", "_linkRefractionWithTransparency",
                    "_useMaskFromThicknessTexture"} -> BOOLEAN
      [] field = "_thicknessTexture" -> {NULL} \cup ThicknessTextures
      [] field = "_refractionTexture" -> {NULL} \cup RefractionTextures
      [] field \in {"tintColor", "diffusionDistance"} -> Colors
      [] OTHER -> Numbers

\* _markAllSubMeshesAsTexturesDirty: one more invocation of the callback the
\* constructor was given.
markAllSubMeshesAsTexturesDirtyDropped(calls) == calls
markAllSubMeshesAsTexturesDirty(calls) == calls + 1

\* The accessor @expandToProperty("_markAllSubMeshesAsTexturesDirty") installs:
\* assigning the value the field already holds does nothing (the field
\* initialisers assign through it before the constructor stores the callback).
expandToProperty(c, property, value) ==
    LET key == ExpandedProperties[property] IN
    IF c[key] = value
    THEN [cfg |-> c, dirtyCalls |-> 0]
    ELSE [cfg |-> [c EXCEPT ![key] = value],
          dirtyCalls |-> markAllSubMeshesAsTexturesDirty(0)]

\* _getRefractionTexture(scene)
getRefractionTextureAlways(c, scene) ==
    IF c._refractionTexture # NULL THEN c._refractionTexture
    ELSE scene.environmentTexture
getRefractionTextureLinked(c, scene) ==
    IF c._refractionTexture # NULL THEN c._refractionTexture
    ELSE IF c._linkRefractionWithTransparency THEN scene.environmentTexture
    ELSE NULL
getRefractionTexture(c, scene) ==
    IF c._refractionTexture # NULL THEN c._refractionTexture
    ELSE IF c._isRefractionEnabled THEN scene.environmentTexture
    ELSE NULL

(***************************************************************************)
(* Shader defines.                                                         *)
(***************************************************************************)
\* The define struct of a material no block has filled yet.
IMaterialSubSurfaceDefines ==
    [SUBSURFACE |-> FALSE,
     SS_REFRACTION |-> FALSE,
     SS_TRANSLUCENCY |-> FALSE,
     SS_SCATERRING |-> FALSE,
     SS_THICKNESSANDMASK_TEXTURE |-> FALSE,
     SS_THICKNESSANDMASK_TEXTUREDIRECTUV |-> 0,
     SS_REFRACTIONMAP_3D |-> FALSE,
     SS_REFRACTIONMAP_OPPOSITEZ |-> FALSE,
     SS_LODINREFRACTIONALPHA |-> FALSE,
     SS_GAMMAREFRACTION |-> FALSE,
     SS_RGBDREFRACTION |-> FALSE,
     SS_LINKREFRACTIONTOTRANSPARENCY |-> FALSE,
     SS_MASK_FROM_THICKNESS_TEXTURE |-> FALSE,
     _areTexturesDirty |-> FALSE]

\* MaterialHelper.PrepareDefinesForMergedUV(texture, defines, key) for the
\* key "SS_THICKNESSANDMASK_TEXTURE": the define and the UV set it reads.
PrepareDefinesForMergedUV(texture, d) ==
    [d EXCEPT !.SS_THICKNESSANDMASK_TEXTURE = TRUE,
              !.SS_THICKNESSANDMASK_TEXTUREDIRECTUV =
                  IF BaseTexture[texture].identityMatrix
                  THEN BaseTexture[texture].coordinatesIndex + 1
                  ELSE 0]

\* prepareDefines, lines 235-247: the unconditional assignments.
ResetDefinesSubSurfaceOnly(c, d) ==
    [d EXCEPT !.SUBSURFACE = FALSE,
              !.SS_TRANSLUCENCY = c._isTranslucencyEnabled,
              !.SS_SCATERRING = c._isScatteringEnabled]
ResetDefines(c, d) ==
    [d EXCEPT !.SUBSURFACE = FALSE,
              !.SS_TRANSLUCENCY = c._isTranslucencyEnabled,
              !.SS_SCATERRING = c._isScatteringEnabled,
              !.SS_THICKNESSANDMASK_TEXTURE = FALSE,
              !.SS_MASK_FROM_THICKNESS_TEXTURE = FALSE,
              !.SS_REFRACTION = FALSE,
              !.SS_REFRACTIONMAP_3D = FALSE,
              !.SS_GAMMAREFRACTION = FALSE,
              !.SS_RGBDREFRACTION = FALSE,
              !.SS_REFRACTIONMAP_OPPOSITEZ = FALSE,
              !.SS_LODINREFRACTIONALPHA = FALSE,
              !.SS_LINKREFRACTIONTOTRANSPARENCY = FALSE]

\* prepareDefines, lines 249-261: the block taken when an effect is enabled.
SubSurfaceDefinesNoScattering(c, d, scene, flags) ==
    IF c._isRefractionEnabled \/ c._isTranslucencyEnabled
    THEN LET d1 == [d EXCEPT !.SUBSURFACE = TRUE]
             d2 == IF /\ d1._areTexturesDirty
                      /\ scene.texturesEnabled
                      /\ c._thicknessTexture # NULL
                      /\ flags.ThicknessTextureEnabled
                   THEN PrepareDefinesForMergedUV(c._thicknessTexture, d1)
                   ELSE d1
         IN [d2 EXCEPT !.SS_MASK_FROM_THICKNESS_TEXTURE = c._useMaskFromThicknessTexture]
    ELSE d
SubSurfaceDefines(c, d, scene, flags) ==
    IF c._isRefractionEnabled \/ c._isTranslucencyEnabled \/ c._isScatteringEnabled
    THEN LET d1 == [d EXCEPT !.SUBSURFACE = TRUE]
             d2 == IF /\ d1._areTexturesDirty
                      /\ scene.texturesEnabled
                      /\ c._thicknessTexture # NULL
                      /\ flags.ThicknessTextureEnabled
                   THEN PrepareDefinesForMergedUV(c._thicknessTexture, d1)
                   ELSE d1
         IN [d2 EXCEPT !.SS_MASK_FROM_THICKNESS_TEXTURE = c._useMaskFromThicknessTexture]
    ELSE d

\* prepareDefines, lines 263-276: the refraction defines.
RefractionDefinesUngated(c, d, scene, flags) ==
    LET refractionTexture == getRefractionTexture(c, scene) IN
    IF c._isRefractionEnabled /\ refractionTexture # NULL
    THEN [d EXCEPT !.SS_REFRACTION = TRUE,
                   !.SS_REFRACTIONMAP_3D = BaseTexture[refractionTexture].isCube,
                   !.SS_GAMMAREFRACTION = BaseTexture[refractionTexture].gammaSpace,
                   !.SS_RGBDREFRACTION = BaseTexture[refractionTexture].isRGBD,
                   !.SS_REFRACTIONMAP_OPPOSITEZ = BaseTexture[refractionTexture].invertZ,
                   !.SS_LODINREFRACTIONALPHA = BaseTexture[refractionTexture].lodLevelInAlpha,
                   !.SS_LINKREFRACTIONTOTRANSPARENCY = c._linkRefractionWithTransparency]
    ELSE d
RefractionDefines(c, d, scene, flags) ==
    LET refractionTexture == getRefractionTexture(c, scene) IN
    IF /\ c._isRefractionEnabled
       /\ scene.texturesEnabled
       /\ refractionTexture # NULL
       /\ flags.RefractionTextureEnabled
    THEN [d EXCEPT !.SS_REFRACTION = TRUE,
                   !.SS_REFRACTIONMAP_3D = BaseTexture[refractionTexture].isCube,
                   !.SS_GAMMAREFRACTION = BaseTexture[refractionTexture].gammaSpace,
                   !.SS_RGBDREFRACTION = BaseTexture[refractionTexture].isRGBD,
                   !.SS_REFRACTIONMAP_OPPOSITEZ = BaseTexture[refractionTexture].invertZ,
                   !.SS_LODINREFRACTIONALPHA = BaseTexture[refractionTexture].lodLevelInAlpha,
                   !.SS_LINKREFRACTIONTOTRANSPARENCY = c._linkRefractionWithTransparency]
    ELSE d

\* prepareDefines(defines, scene)
prepareDefines(c, d, scene, flags) ==
    IF d._areTexturesDirty
    THEN RefractionDefines(c, SubSurfaceDefines(c, ResetDefines(c, d), scene, flags),
                           scene, flags)
    ELSE d

(***************************************************************************)
(* Readiness, binding, disposal.                                           *)
(***************************************************************************)
\* isReadyForSubMesh(defines, scene); ready holds the textures whose
\* isReadyOrNotBlocking() answers true.
isReadyForSubMeshThicknessOnly(c, d, scene, flags, ready) ==
    IF d._areTexturesDirty /\ scene.texturesEnabled
    THEN ~ (/\ c._thicknessTexture # NULL
            /\ flags.ThicknessTextureEnabled
            /\ c._thicknessTexture \notin ready)
    ELSE TRUE
isReadyForSubMesh(c, d, scene, flags, ready) ==
    IF d._areTexturesDirty /\ scene.texturesEnabled
    THEN IF /\ c._thicknessTexture # NULL
            /\ flags.ThicknessTextureEnabled
            /\ c._thicknessTexture \notin ready
         THEN FALSE
         ELSE LET refractionTexture == getRefractionTexture(c, scene) IN
              ~ (/\ refractionTexture # NULL
                 /\ flags.RefractionTextureEnabled
                 /\ refractionTexture \notin ready)
    ELSE TRUE

\* A uniform buffer or effect nothing was written to.
Nothing == [name \in {} |-> NULL]

\* MaterialHelper.BindTextureMatrix(texture, uniformBuffer, key) for the key
\* "thickness": the texture matrix is uploaded unless it is the identity.
BindTextureMatrix(texture) ==
    IF BaseTexture[texture].identityMatrix
    THEN Nothing
    ELSE "thicknessMatrix" :> <<"textureMatrix", texture>>

\* bindForSubMesh, lines 292-295
ThicknessUniforms(c, flags) ==
    IF c._thicknessTexture # NULL /\ flags.ThicknessTextureEnabled
    THEN ("vThicknessInfos" :> <<BaseTexture[c._thicknessTexture].coordinatesIndex,
                                 BaseTexture[c._thicknessTexture].level>>)
         @@ BindTextureMatrix(c._thicknessTexture)
    ELSE Nothing

\* bindForSubMesh, lines 299-313; 1 / n is kept as the pair <<1, n>>.
RefractionUniforms(c, refractionTexture, flags) ==
    IF refractionTexture # NULL /\ flags.RefractionTextureEnabled
    THEN LET t == BaseTexture[refractionTexture]
             depth == IF ~t.isCube /\ t.depth # 0 THEN t.depth ELSE 1
         IN ("refractionMatrix" :> <<"reflectionTextureMatrix", refractionTexture>>)
            @@ ("vRefractionInfos" :>
                    <<t.level, <<1, c._indexOfRefraction>>, depth,
                      IF c._invertRefractionY THEN -1 ELSE 1>>)
            @@ ("vRefractionMicrosurfaceInfos" :>
                    <<t.width, t.lodGenerationScale, t.lodGenerationOffset>>)
    ELSE Nothing

\* bindForSubMesh, lines 291-323: the uniforms written.
BoundUniformsUngated(c, scene, flags, useUbo, isFrozen, isSync) ==
    LET refractionTexture == getRefractionTexture(c, scene) IN
    ThicknessUniforms(c, flags)
    @@ ("vThicknessParam" :> <<c.minimumThickness,
                               c.maximumThickness - c.minimumThickness>>)
    @@ RefractionUniforms(c, refractionTexture, flags)
    @@ ("vDiffusionDistance" :> c.diffusionDistance)
    @@ ("vTintColor" :> <<c.tintColor.r, c.tintColor.g, c.tintColor.b,
                          c.tintColorAtDistance>>)
    @@ ("vSubSurfaceIntensity" :> <<c.refractionIntensity, c.translucencyIntensity,
                                    c.scatteringIntensity>>)
BoundUniforms(c, scene, flags, useUbo, isFrozen, isSync) ==
    LET refractionTexture == getRefractionTexture(c, scene) IN
    IF ~useUbo \/ ~isFrozen \/ ~isSync
    THEN ThicknessUniforms(c, flags)
         @@ ("vThicknessParam" :> <<c.minimumThickness,
                                    c.maximumThickness - c.minimumThickness>>)
         @@ RefractionUniforms(c, refractionTexture, flags)
         @@ ("vDiffusionDistance" :> c.diffusionDistance)
         @@ ("vTintColor" :> <<c.tintColor.r, c.tintColor.g, c.tintColor.b,
                               c.tintColorAtDistance>>)
         @@ ("vSubSurfaceIntensity" :> <<c.refractionIntensity, c.translucencyIntensity,
                                         c.scatteringIntensity>>)
    ELSE Nothing

\* a || b on texture references
OrElse(a, b) == IF a # NULL THEN a ELSE b

\* bindForSubMesh, lines 326-341: the samplers bound.
BoundSamplersRefractionOnly(c, scene, flags, lodBasedMicrosurface) ==
    LET refractionTexture == getRefractionTexture(c, scene) IN
    IF scene.texturesEnabled /\ refractionTexture # NULL /\ flags.RefractionTextureEnabled
    THEN "refractionSampler" :> refractionTexture
    ELSE Nothing
BoundSamplers(c, scene, flags, lodBasedMicrosurface) ==
    LET refractionTexture == getRefractionTexture(c, scene) IN
    IF scene.texturesEnabled
    THEN (IF c._thicknessTexture # NULL /\ flags.ThicknessTextureEnabled
          THEN "thicknessSampler" :> c._thicknessTexture
          ELSE Nothing)
         @@ (IF refractionTexture # NULL /\ flags.RefractionTextureEnabled
             THEN IF lodBasedMicrosurface
                  THEN "refractionSampler" :> refractionTexture
                  ELSE LET t == BaseTexture[refractionTexture] IN
                       ("refractionSampler" :> OrElse(t.lodTextureMid, refractionTexture))
                       @@ ("refractionSamplerLow" :> OrElse(t.lodTextureLow, refractionTexture))
                       @@ ("refractionSamplerHigh" :> OrElse(t.lodTextureHigh, refractionTexture))
             ELSE Nothing)
    ELSE Nothing

\* unbind(activeEffect): whether the refraction sampler was reset.
unbind(c) ==
    c._refractionTexture # NULL /\ BaseTexture[c._refractionTexture].isRenderTarget

\* The values of the optional argument of dispose, and JavaScript's truthiness.
ForceDisposeValues == {"true", "false", "undefined"}
Truthy(v) == v = "true"

\* dispose(forceDisposeTextures): the textures dispose() is called on.
disposeAlways(c, forceDisposeTextures) ==
    {c._thicknessTexture, c._refractionTexture} \ {NULL}
dispose(c, forceDisposeTextures) ==
    IF Truthy(forceDisposeTextures)
    THEN {c._thicknessTexture, c._refractionTexture} \ {NULL}
    ELSE {}

(***************************************************************************)
(* Serialization.                                                          *)
(***************************************************************************)
\* The properties declared with @serialize(), @serializeAsTexture() and
\* @serializeAsColor3(), under the names they are declared with.
SerializedValues ==
    {"_isRefractionEnabled", "_isTranslucencyEnabled", "_isScatteringEnabled",
     "refractionIntensity", "translucencyIntensity", "scatteringIntensity",
     "indexOfRefraction", "invertRefractionY", "linkRefractionWithTransparency",
     "minimumThickness", "maximumThickness", "tintColorAtDistance",
     "_useMaskFromThicknessTexture"}
SerializedTexturesThicknessOnly == {"_thicknessTexture"}
SerializedTextures == {"_thicknessTexture", "refractionTexture"}
SerializedColors == {"tintColor", "diffusionDistance"}
SerializedProperties == SerializedValues \cup SerializedTextures \cup SerializedColors

\* The field a declared name reads and writes.
FieldOf(property) ==
    IF property \in DOMAIN ExpandedProperties THEN ExpandedProperties[property]
    ELSE property

\* The serialized form of a property's value and back: a texture as the
\* object naming it, a colour as the array of its components.
Encode(property, value) ==
    IF property \in SerializedTextures
    THEN IF value = NULL THEN <<>> ELSE <<"texture", value>>
    ELSE IF property \in SerializedColors
    THEN <<value.r, value.g, value.b>>
    ELSE value
Decode(property, data) ==
    IF property \in SerializedTextures
    THEN IF data = <<>> THEN NULL ELSE data[2]
    ELSE IF property \in SerializedColors
    THEN [r |-> data[1], g |-> data[2], b |-> data[3]]
    ELSE data

\* SerializationHelper.Serialize(this)
Serialize(c) ==
    [property \in SerializedProperties |-> Encode(property, c[FieldOf(property)])]

\* The declared name a field is serialized under, if any.
PropertyOf ==
    [field \in DOMAIN PBRSubSurfaceConfiguration |->
        IF \E property \in SerializedProperties : FieldOf(property) = field
        THEN CHOOSE property \in SerializedProperties : FieldOf(property) = field
        ELSE NULL]

\* SerializationHelper.Parse(() => this, source, null): every declared
\* property is assigned from the source; the assignments to accessor
\* properties go through expandToProperty.
Parse(c, source) ==
    LET new == [field \in DOMAIN c |->
                   IF PropertyOf[field] \in DOMAIN source
                   THEN Decode(PropertyOf[field], source[PropertyOf[field]])
                   ELSE c[field]]
    IN [cfg |-> new,
        dirtyCalls |-> Cardinality({property \in DOMAIN ExpandedProperties :
                                        /\ property \in SerializedProperties
                                        /\ new[FieldOf(property)] # c[FieldOf(property)]})]

\* SerializationHelper.Clone(() => configuration, this): every declared
\* property of the target is assigned the source's.
Clone(target, c) ==
    LET new == [field \in DOMAIN target |->
                   IF PropertyOf[field] # NULL THEN c[field] ELSE target[field]]
    IN [cfg |-> new,
        dirtyCalls |-> Cardinality({property \in DOMAIN ExpandedProperties :
                                        /\ property \in SerializedProperties
                                        /\ new[FieldOf(property)] # target[FieldOf(property)]})]

\* Configurations read from files or built elsewhere: any choice of effects.
SampleConfigurations ==
    {[PBRSubSurfaceConfiguration EXCEPT !._isRefractionEnabled = r,
                                        !._isTranslucencyEnabled = t,
                                        !._isScatteringEnabled = s] : r, t, s \in BOOLEAN}
SampleSources == {Serialize(configuration) : configuration \in SampleConfigurations}

(***************************************************************************)
(* Operations.                                                             *)
(***************************************************************************)
\* block.<property> = value, for a property declared with @expandToProperty.
SetProperty(property, value) ==
    LET r == expandToProperty(cfg, property, value) IN
    /\ cfg' = r.cfg
    /\ call' = [op |-> "setProperty"]
    /\ out' = [dirtyCalls |-> r.dirtyCalls, disposed |-> {}]
    /\ UNCHANGED defines

\* block.<field> = value, for a public field without accessor.
SetField(field, value) ==
    /\ cfg' = [cfg EXCEPT ![field] = value]
    /\ call' = [op |-> "setField"]
    /\ out' = [dirtyCalls |-> 0, disposed |-> {}]
    /\ UNCHANGED defines

\* block.isReadyForSubMesh(defines, scene), the caller having set or cleared
\* defines._areTexturesDirty.
IsReadyForSubMesh(dirty, scene, flags, ready) ==
    LET d == [defines EXCEPT !._areTexturesDirty = dirty] IN
    /\ defines' = d
    /\ call' = [op |-> "isReadyForSubMesh", scene |-> scene, MaterialFlags |-> flags,
                ready |-> ready]
    /\ out' = [dirtyCalls |-> 0, disposed |-> {},
               ret |-> isReadyForSubMesh(cfg, d, scene, flags, ready)]
    /\ UNCHANGED cfg

\* block.prepareDefines(defines, scene), the caller having set or cleared
\* defines._areTexturesDirty.
PrepareDefines(dirty, scene, flags) ==
    /\ defines' = prepareDefines(cfg, [defines EXCEPT !._areTexturesDirty = dirty],
                                 scene, flags)
    /\ call' = [op |-> "prepareDefines", scene |-> scene, MaterialFlags |-> flags]
    /\ out' = [dirtyCalls |-> 0, disposed |-> {}]
    /\ UNCHANGED cfg

\* block.bindForSubMesh(uniformBuffer, scene, engine, isFrozen, lodBasedMicrosurface)
BindForSubMesh(scene, flags, useUbo, isFrozen, isSync, lodBasedMicrosurface) ==
    /\ call' = [op |-> "bindForSubMesh", scene |-> scene, MaterialFlags |-> flags,
                useUbo |-> useUbo, isFrozen |-> isFrozen, isSync |-> isSync,
                lodBasedMicrosurface |-> lodBasedMicrosurface]
    /\ out' = [dirtyCalls |-> 0, disposed |-> {},
               uniforms |-> BoundUniforms(cfg, scene, flags, useUbo, isFrozen, isSync),
               samplers |-> BoundSamplers(cfg, scene, flags, lodBasedMicrosurface)]
    /\ UNCHANGED <<cfg, defines>>

\* block.unbind(activeEffect)
Unbind ==
    /\ call' = [op |-> "unbind"]
    /\ out' = [dirtyCalls |-> 0, disposed |-> {},
               ret |-> unbind(cfg),
               samplers |-> IF unbind(cfg) THEN "refractionSampler" :> NULL ELSE Nothing]
    /\ UNCHANGED <<cfg, defines>>

\* block.dispose(forceDisposeTextures)
Dispose(forceDisposeTextures) ==
    /\ call' = [op |-> "dispose", forceDisposeTextures |-> forceDisposeTextures]
    /\ out' = [dirtyCalls |-> 0, disposed |-> dispose(cfg, forceDisposeTextures)]
    /\ UNCHANGED <<cfg, defines>>

\* block.serialize()
SerializeBlock ==
    /\ call' = [op |-> "serialize"]
    /\ out' = [dirtyCalls |-> 0, disposed |-> {}, ret |-> Serialize(cfg)]
    /\ UNCHANGED <<cfg, defines>>

\* block.parse(source)
ParseBlock(source) ==
    LET r == Parse(cfg, source) IN
    /\ cfg' = r.cfg
    /\ call' = [op |-> "parse"]
    /\ out' = [dirtyCalls |-> r.dirtyCalls, disposed |-> {}]
    /\ UNCHANGED defines

\* copy.parse(block.serialize()), copy being newly constructed
ParseCopy ==
    /\ call' = [op |-> "parseCopy"]
    /\ out' = [dirtyCalls |-> 0, disposed |-> {},
               copy |-> Parse(PBRSubSurfaceConfiguration, Serialize(cfg)).cfg]
    /\ UNCHANGED <<cfg, defines>>

\* block.copyTo(configuration)
CopyTo(configuration) ==
    /\ call' = [op |-> "copyTo"]
    /\ out' = [dirtyCalls |-> 0, disposed |-> {}, copy |-> Clone(configuration, cfg).cfg]
    /\ UNCHANGED <<cfg, defines>>

Init ==
    /\ cfg = PBRSubSurfaceConfiguration
    /\ defines = IMaterialSubSurfaceDefines
    /\ call = [op |-> "constructor"]
    /\ out = [dirtyCalls |-> 0, disposed |-> {}]

\* The textures a caller may know the readiness of: the block's and the scene's.
Held(scene) == {cfg._thicknessTexture, cfg._refractionTexture, scene.environmentTexture} \ {NULL}

(***************************************************************************)
(* Spec: every operation of the block, its refraction switch and textures  *)
(* changing in between; the materials bound are frozen and in sync, so     *)
(* that useUbo alone decides whether uniforms are uploaded.                *)
(***************************************************************************)
Next ==
    \/ \E value \in BOOLEAN : SetProperty("isRefractionEnabled", value)
    \/ \E value \in {NULL, ThicknessMap} : SetProperty("thicknessTexture", value)
    \/ \E value \in {NULL} \cup RefractionTextures : SetProperty("refractionTexture", value)
    \/ \E dirty \in BOOLEAN, scene \in Scenes, flags \in MaterialFlagsValues :
           \E ready \in SUBSET Held(scene) :
               IsReadyForSubMesh(dirty, scene, flags, ready)
    \/ \E dirty \in BOOLEAN, scene \in Scenes, flags \in MaterialFlagsValues :
           PrepareDefines(dirty, scene, flags)
    \/ \E scene \in Scenes, flags \in MaterialFlagsValues,
          useUbo \in BOOLEAN, lodBasedMicrosurface \in BOOLEAN :
           BindForSubMesh(scene, flags, useUbo, TRUE, TRUE, lodBasedMicrosurface)
    \/ Unbind
    \/ \E forceDisposeTextures \in ForceDisposeValues : Dispose(forceDisposeTextures)
    \/ SerializeBlock
    \/ ParseCopy
    \/ \E configuration \in SampleConfigurations : CopyTo(configuration)

Spec == Init /\ [][Next]_vars

(***************************************************************************)
(* SpecDefines: define derivation under every choice of effects, textures  *)
(* and flags.                                                              *)
(***************************************************************************)
NextDefines ==
    \/ \E property \in {"isRefractionEnabled", "isTranslucencyEnabled", "refractionTexture",
                        "linkRefractionWithTransparency"} :
           \E value \in FieldValues(ExpandedProperties[property]) :
               SetProperty(property, value)
    \/ \E value \in {NULL, ThicknessMap} : SetProperty("thicknessTexture", value)
    \/ \E source \in SampleSources : ParseBlock(source)
    \/ \E dirty \in BOOLEAN, scene \in Scenes, flags \in MaterialFlagsValues :
           PrepareDefines(dirty, scene, flags)

SpecDefines == Init /\ [][NextDefines]_vars

(***************************************************************************)
(* SpecReady: the readiness check under every readiness of the textures.   *)
(***************************************************************************)
NextReady ==
    \/ \E property \in {"isRefractionEnabled", "thicknessTexture", "refractionTexture"} :
           \E value \in FieldValues(ExpandedProperties[property]) :
               SetProperty(property, value)
    \/ \E dirty \in BOOLEAN, scene \in Scenes, flags \in MaterialFlagsValues :
           \E ready \in SUBSET Held(scene) :
               IsReadyForSubMesh(dirty, scene, flags, ready)

SpecReady == Init /\ [][NextReady]_vars

(***************************************************************************)
(* SpecBind: binding under every state of the uniform buffer, the scene    *)
(* and the flags.                                                          *)
(***************************************************************************)
NextBind ==
    \/ \E property \in {"isRefractionEnabled", "thicknessTexture", "refractionTexture",
                        "linkRefractionWithTransparency"} :
           \E value \in FieldValues(ExpandedProperties[property]) :
               SetProperty(property, value)
    \/ \E field \in {"minimumThickness"} :
           \E value \in FieldValues(field) :
               SetField(field, value)
    \/ \E scene \in Scenes, flags \in MaterialFlagsValues,
          useUbo \in BOOLEAN, isFrozen \in BOOLEAN, isSync \in BOOLEAN,
          lodBasedMicrosurface \in BOOLEAN :
           BindForSubMesh(scene, flags, useUbo, isFrozen, isSync, lodBasedMicrosurface)

SpecBind == Init /\ [][NextBind]_vars

(***************************************************************************)
(* SpecParams: the parameters being set, serialized, parsed and copied.    *)
(***************************************************************************)
OffDefault(c) ==
    Cardinality({field \in DOMAIN c : c[field] # PBRSubSurfaceConfiguration[field]})

NextParams ==
    \/ \E property \in DOMAIN ExpandedProperties :
           \E value \in FieldValues(ExpandedProperties[property]) :
               SetProperty(property, value) /\ OffDefault(cfg') <= MaxOffDefault
    \/ \E field \in PlainFields :
           \E value \in FieldValues(field) :
               SetField(field, value) /\ OffDefault(cfg') <= MaxOffDefault
    \/ \E source \in SampleSources :
           ParseBlock(source) /\ OffDefault(cfg') <= MaxOffDefault
    \/ SerializeBlock
    \/ ParseCopy
    \/ \E configuration \in SampleConfigurations : CopyTo(configuration)

SpecParams == Init /\ [][NextParams]_vars

(***************************************************************************)
(* SpecImplied: define derivation with the thickness mask and the link to   *)
(* transparency switched on and off between calls.                         *)
(***************************************************************************)
NextImplied ==
    \/ \E property \in {"isRefractionEnabled", "isTranslucencyEnabled",
                        "linkRefractionWithTransparency", "useMaskFromThicknessTexture"} :
           \E value \in BOOLEAN : SetProperty(property, value)
    \/ \E value \in {NULL, ThicknessMap} : SetProperty("thicknessTexture", value)
    \/ \E source \in SampleSources : ParseBlock(source)
    \/ \E dirty \in BOOLEAN, scene \in Scenes, flags \in MaterialFlagsValues :
           PrepareDefines(dirty, scene, flags)

SpecImplied == Init /\ [][NextImplied]_vars

(***************************************************************************)
(* Claims.                                                                 *)
(***************************************************************************)
\* The struct the caller passes when textures are dirty and nothing else
\* has been derived yet.
FreshDirtyDefines == [IMaterialSubSurfaceDefines EXCEPT !._areTexturesDirty = TRUE]

AfterDirtyPrepare == call.op = "prepareDefines" /\ defines._areTexturesDirty

\* The texture the specification resolves for refraction under a scene.
ResolvedRefraction(scene) ==
    IF cfg._refractionTexture # NULL THEN cfg._refractionTexture
    ELSE IF cfg._isRefractionEnabled THEN scene.environmentTexture
    ELSE NULL

\* What the last call bound under a sampler name, null when it bound nothing.
Bound(sampler) ==
    IF sampler \in DOMAIN out.samplers THEN out.samplers[sampler] ELSE NULL

\* C1: after prepareDefines has run on dirty textures, SUBSURFACE is set
\* exactly when refraction, translucency or scattering is enabled, and
\* SS_TRANSLUCENCY and SS_SCATERRING repeat the translucency and scattering
\* flags.
C1_DefinesFollowEnableFlags ==
    AfterDirtyPrepare =>
        /\ defines.SUBSURFACE = (\/ cfg._isRefractionEnabled
                                 \/ cfg._isTranslucencyEnabled
                                 \/ cfg._isScatteringEnabled)
        /\ defines.SS_TRANSLUCENCY = cfg._isTranslucencyEnabled
        /\ defines.SS_SCATERRING = cfg._isScatteringEnabled

\* Scattering alone switches SUBSURFACE on.
C1_Witness ==
    /\ AfterDirtyPrepare
    /\ cfg._isScatteringEnabled
    /\ ~cfg._isRefractionEnabled
    /\ ~cfg._isTranslucencyEnabled
    /\ defines.SUBSURFACE
    /\ defines.SS_SCATERRING

\* C2: after prepareDefines has run on dirty textures, SS_REFRACTION is set
\* exactly when refraction is enabled, the scene's textures are enabled, the
\* refraction texture flag is on and there is an explicit refraction texture
\* or else a scene environment texture; when SS_REFRACTION is not set, none
\* of the six defines that describe the refraction texture is.
C2_RefractionDefine ==
    AfterDirtyPrepare =>
        /\ defines.SS_REFRACTION =
               (/\ cfg._isRefractionEnabled
                /\ call.scene.texturesEnabled
                /\ call.MaterialFlags.RefractionTextureEnabled
                /\ (IF cfg._refractionTexture # NULL
                    THEN cfg._refractionTexture
                    ELSE call.scene.environmentTexture) # NULL)
        /\ ~defines.SS_REFRACTION =>
               /\ ~defines.SS_REFRACTIONMAP_3D
               /\ ~defines.SS_GAMMAREFRACTION
               /\ ~defines.SS_RGBDREFRACTION
               /\ ~defines.SS_REFRACTIONMAP_OPPOSITEZ
               /\ ~defines.SS_LODINREFRACTIONALPHA
               /\ ~defines.SS_LINKREFRACTIONTOTRANSPARENCY

\* Refraction through the environment texture, linked to transparency.
C2_Witness ==
    /\ AfterDirtyPrepare
    /\ cfg._refractionTexture = NULL
    /\ cfg._linkRefractionWithTransparency
    /\ defines.SS_REFRACTION
    /\ defines.SS_REFRACTIONMAP_3D
    /\ defines.SS_LINKREFRACTIONTOTRANSPARENCY

\* C3: a prepareDefines call on dirty textures ends with the defines a call
\* with the same parameters, scene and flags leaves in a struct that held
\* nothing before, SS_THICKNESSANDMASK_TEXTUREDIRECTUV included, and changes
\* no field of the block.
C3_DefinesIndependentOfPriorContents ==
    [][(call'.op = "prepareDefines" /\ defines'._areTexturesDirty) =>
           /\ defines' = prepareDefines(cfg, FreshDirtyDefines, call'.scene,
                                        call'.MaterialFlags)
           /\ cfg' = cfg]_vars

C5_EveryMutationMarksDirty ==
    [][(call'.op \in {"setProperty", "setField"} /\ cfg' # cfg) =>
           out'.dirtyCalls >= 1]_vars

\* C5 as amended: every assignment that changes a property declared with
\* expandToProperty invokes the callback given to the constructor exactly
\* once, whatever came before; an assignment to a plain public field changes
\* the block without invoking it.
C5_AccessorMutationMarksDirty ==
    [][/\ (call'.op = "setProperty" /\ cfg' # cfg) => out'.dirtyCalls = 1
       /\ call'.op = "setField" => out'.dirtyCalls = 0]_vars

\* A property was changed away from its construction value and the callback
\* ran.
C5_Witness ==
    /\ call.op = "setProperty"
    /\ cfg # PBRSubSurfaceConfiguration
    /\ out.dirtyCalls = 1

\* Whether the last readiness call found a texture it uses not ready.
UsedTextureNotReady ==
    \/ /\ cfg._thicknessTexture # NULL
       /\ call.MaterialFlags.ThicknessTextureEnabled
       /\ cfg._thicknessTexture \notin call.ready
    \/ /\ ResolvedRefraction(call.scene) # NULL
       /\ call.MaterialFlags.RefractionTextureEnabled
       /\ ResolvedRefraction(call.scene) \notin call.ready

\* C6 as stated: isReadyForSubMesh answers true only if every texture the
\* block uses (the thickness texture when set and enabled, the resolved
\* refraction texture when there is one and it is enabled, the scene's
\* textures being enabled) is ready.
C6_ReadyOnlyIfTexturesReady ==
    (call.op = "isReadyForSubMesh" /\ out.ret) =>
        ~(call.scene.texturesEnabled /\ UsedTextureNotReady)

\* C6 as amended: isReadyForSubMesh polls the textures only when
\* defines._areTexturesDirty and scene.texturesEnabled are both set; it then
\* answers true exactly when every texture the block uses is ready, and
\* answers true without polling otherwise.
C6_ReadyWhenDirtyTexturesReady ==
    call.op = "isReadyForSubMesh" =>
        out.ret = ~(/\ defines._areTexturesDirty
                    /\ call.scene.texturesEnabled
                    /\ UsedTextureNotReady)

\* The environment texture standing in for refraction is not ready, and the
\* submesh is reported not ready.
C6_Witness ==
    /\ call.op = "isReadyForSubMesh"
    /\ cfg._refractionTexture = NULL
    /\ cfg._thicknessTexture = NULL
    /\ ResolvedRefraction(call.scene) = EnvironmentMap
    /\ ~out.ret

\* C7: bindForSubMesh writes no uniform when useUbo, isFrozen and isSync all
\* hold; otherwise it writes vThicknessParam, vDiffusionDistance, vTintColor
\* and vSubSurfaceIntensity, the thickness uniforms exactly when there is a
\* thickness texture and its flag is on, and the refraction uniforms exactly
\* when there is a resolved refraction texture and its flag is on.  Samplers
\* are bound whatever the gate says, and only when the scene's textures are
\* enabled.
C7_UploadGatedSamplersNot ==
    call.op = "bindForSubMesh" =>
        LET written == DOMAIN out.uniforms
            samplers == DOMAIN out.samplers
            thickness == cfg._thicknessTexture # NULL
                         /\ call.MaterialFlags.ThicknessTextureEnabled
            refraction == ResolvedRefraction(call.scene) # NULL
                          /\ call.MaterialFlags.RefractionTextureEnabled
            refractionUniforms == {"refractionMatrix", "vRefractionInfos",
                                   "vRefractionMicrosurfaceInfos"}
        IN /\ (call.useUbo /\ call.isFrozen /\ call.isSync) => written = {}
           /\ ~(call.useUbo /\ call.isFrozen /\ call.isSync) =>
                  /\ {"vThicknessParam", "vDiffusionDistance", "vTintColor",
                      "vSubSurfaceIntensity"} \subseteq written
                  /\ ("vThicknessInfos" \in written) = thickness
                  /\ ("thicknessMatrix" \in written) => thickness
                  /\ IF refraction
                     THEN refractionUniforms \subseteq written
                     ELSE refractionUniforms \cap written = {}
           /\ ("thicknessSampler" \in samplers) = (call.scene.texturesEnabled /\ thickness)
           /\ ("refractionSampler" \in samplers) = (call.scene.texturesEnabled /\ refraction)
           /\ samplers # {} => call.scene.texturesEnabled

\* A frozen material in sync: nothing uploaded, both samplers bound.
C7_Witness ==
    /\ call.op = "bindForSubMesh"
    /\ call.useUbo /\ call.isFrozen /\ call.isSync
    /\ out.uniforms = Nothing
    /\ Bound("thicknessSampler") # NULL
    /\ Bound("refractionSampler") # NULL

\* C8: dispose() disposes the thickness texture and the explicit refraction
\* texture exactly when forceDisposeTextures is truthy, never the texture
\* that stands in for a missing refraction texture, and no other operation
\* disposes a texture.
C8_OnlyForcedDisposeDisposes ==
    /\ call.op = "dispose" =>
           out.disposed = IF call.forceDisposeTextures = "true"
                          THEN {cfg._thicknessTexture, cfg._refractionTexture} \ {NULL}
                          ELSE {}
    /\ cfg._refractionTexture = NULL => out.disposed \subseteq {cfg._thicknessTexture}
    /\ EnvironmentMap \notin out.disposed
    /\ call.op # "dispose" => out.disposed = {}

\* A forced dispose of a block holding both textures.
C8_Witness ==
    /\ call.op = "dispose"
    /\ out.disposed = {ThicknessMap, RefractionMap}

C11_BindOnlyWhatDefinesDeclare ==
    [][(/\ call.op = "prepareDefines"
        /\ defines._areTexturesDirty
        /\ call'.op = "bindForSubMesh"
        /\ call'.scene = call.scene
        /\ call'.MaterialFlags = call.MaterialFlags)
       => LET written == DOMAIN out'.uniforms \cup DOMAIN out'.samplers IN
          /\ written \cap {"refractionMatrix", "vRefractionInfos",
                           "vRefractionMicrosurfaceInfos", "refractionSampler",
                           "refractionSamplerLow", "refractionSamplerHigh"} # {}
                 => defines.SS_REFRACTION
          /\ written \cap {"vThicknessInfos", "thicknessSampler"} # {}
                 => defines.SS_THICKNESSANDMASK_TEXTURE]_vars

\* C11 as amended: bindForSubMesh writes the refraction uniforms or binds a
\* refraction sampler only if a refraction texture resolves and its flag is
\* on, and writes vThicknessInfos or binds thicknessSampler only if a
\* thickness texture is set and its flag is on, whatever prepareDefines
\* derived; and whenever a prepareDefines on dirty textures under the same
\* parameters, scene and flags set SS_REFRACTION (SS_THICKNESSANDMASK_TEXTURE),
\* bindForSubMesh binds refractionSampler (thicknessSampler) and, unless
\* useUbo, isFrozen and isSync all hold, writes the refraction uniforms
\* (vThicknessInfos).
C11_BindCoversDefines ==
    [][(/\ call.op = "prepareDefines"
        /\ defines._areTexturesDirty
        /\ call'.op = "bindForSubMesh"
        /\ call'.scene = call.scene
        /\ call'.MaterialFlags = call.MaterialFlags)
       => LET uniforms == DOMAIN out'.uniforms
              samplers == DOMAIN out'.samplers
              open == ~(call'.useUbo /\ call'.isFrozen /\ call'.isSync)
              refractionUniforms == {"refractionMatrix", "vRefractionInfos",
                                     "vRefractionMicrosurfaceInfos"}
              refractionSamplers == {"refractionSampler", "refractionSamplerLow",
                                     "refractionSamplerHigh"}
          IN /\ (uniforms \cup samplers) \cap (refractionUniforms \cup refractionSamplers) # {}
                    => /\ ResolvedRefraction(call.scene) # NULL
                       /\ call.MaterialFlags.RefractionTextureEnabled
             /\ (uniforms \cup samplers) \cap {"vThicknessInfos", "thicknessSampler"} # {}
                    => /\ cfg._thicknessTexture # NULL
                       /\ call.MaterialFlags.ThicknessTextureEnabled
             /\ defines.SS_REFRACTION
                    => /\ "refractionSampler" \in samplers
                       /\ open => refractionUniforms \subseteq uniforms
             /\ defines.SS_THICKNESSANDMASK_TEXTURE
                    => /\ "thicknessSampler" \in samplers
                       /\ open => "vThicknessInfos" \in uniforms]_vars

\* A bind under the state both defines were derived from: both textures are
\* uploaded and bound.
C11_Witness ==
    /\ call.op = "bindForSubMesh"
    /\ defines = prepareDefines(cfg, FreshDirtyDefines, call.scene, call.MaterialFlags)
    /\ defines.SS_REFRACTION
    /\ defines.SS_THICKNESSANDMASK_TEXTURE
    /\ ~call.useUbo
    /\ "vThicknessInfos" \in DOMAIN out.uniforms
    /\ "refractionMatrix" \in DOMAIN out.uniforms
    /\ Bound("thicknessSampler") = cfg._thicknessTexture
    /\ Bound("refractionSampler") # NULL

\* The defines that make sense only under another one.
Implied(d) ==
    /\ d.SS_REFRACTION => d.SUBSURFACE
    /\ d.SS_TRANSLUCENCY => d.SUBSURFACE
    /\ d.SS_SCATERRING => d.SUBSURFACE
    /\ d.SS_THICKNESSANDMASK_TEXTURE => d.SUBSURFACE
    /\ d.SS_MASK_FROM_THICKNESS_TEXTURE => d.SUBSURFACE
    /\ d.SS_LINKREFRACTIONTOTRANSPARENCY => d.SS_REFRACTION

\* C12: after any sequence of parameter mutations and prepareDefines calls
\* whose last prepareDefines ran on dirty textures, SS_REFRACTION,
\* SS_TRANSLUCENCY, SS_SCATERRING, SS_THICKNESSANDMASK_TEXTURE and
\* SS_MASK_FROM_THICKNESS_TEXTURE each imply SUBSURFACE and
\* SS_LINKREFRACTIONTOTRANSPARENCY implies SS_REFRACTION; a prepareDefines
\* call on textures that are not dirty leaves every define as it was.
C12_ImpliedDefines ==
    [][/\ defines'._areTexturesDirty => Implied(defines')
       /\ (call'.op = "prepareDefines" /\ ~defines'._areTexturesDirty) =>
              \A define \in DOMAIN defines \ {"_areTexturesDirty"} :
                  defines'[define] = defines[define]]_vars

\* The defines of a masked, linked refraction, derived on dirty textures; the
\* block was changed since.
C12_Witness ==
    /\ call.op = "setProperty"
    /\ defines._areTexturesDirty
    /\ defines.SUBSURFACE
    /\ defines.SS_REFRACTION
    /\ defines.SS_LINKREFRACTIONTOTRANSPARENCY
    /\ defines.SS_THICKNESSANDMASK_TEXTURE
    /\ defines.SS_MASK_FROM_THICKNESS_TEXTURE
    /\ ~cfg._isRefractionEnabled

====
